---- MODULE Spec2Model ----
(***************************************************************************)
(* A model of utility_bills_processor: the bill records (GasBill,          *)
(* WaterBill), their field converters, construction, validation, row and   *)
(* header output, and the extraction of a record from a PDF document.      *)
(*                                                                         *)
(* Python values are tagged records.  A float is held as the decimal       *)
(* number it denotes, counted in units of 10^-FracDigits, so "75.90" is    *)
(* Dec(7590, 2); an int is held as itself.  round(x, n) is Python's        *)
(* round-half-to-even.  The numbers the model is run on are ones on which  *)
(* the binary float arithmetic of the code and this decimal arithmetic     *)
(* give the same outcomes.  A str is a sequence of one-character strings.  *)
(***************************************************************************)
EXTENDS Integers, Sequences, FiniteSets, TLC

----------------------------------------------------------------------------
(* Python values *)

\* The digits kept after the decimal point of a float; one float unit is
\* 10^-FracDigits.
FracDigits == 5

RECURSIVE Pow10(_)
Pow10(n) == IF n = 0 THEN 1 ELSE 10 * Pow10(n - 1)

Unit == Pow10(FracDigits)
\* The float n * 10^-d in float units.
Dec(n, d) == n * Pow10(FracDigits - d)

NoneV == [t |-> "none"]
IntV(n) == [t |-> "int", v |-> n]
FloatV(u) == [t |-> "float", v |-> u]
StrV(s) == [t |-> "str", s |-> s]
DateV(y, m, d) == [t |-> "date", y |-> y, m |-> m, d |-> d]
DateTimeV(y, m, d) == [t |-> "datetime", y |-> y, m |-> m, d |-> d]
\* The text of a date as a PDF prints it: fmt is "space" for "Apr 19 2024",
\* "comma" for "Apr 19, 2024", "slash" for "04/19/2024"; mon is the month
\* number the month text denotes, 0 when it denotes none.
DateStrV(fmt, mon, day, year) ==
    [t |-> "datestr", fmt |-> fmt, mon |-> mon, day |-> day, year |-> year]
\* An exception raised instead of a value.
Raise(e) == [t |-> "raise", e |-> e]
IsRaise(x) == x.t = "raise"

IsNum(x) == x.t \in {"int", "float"}
\* The number a numeric value denotes, in float units.
Num(x) == IF x.t = "int" THEN x.v * Unit ELSE x.v

\* Python's == between two values: numbers compare by value across int and
\* float, everything else by type and content.
PyEq(a, b) == IF IsNum(a) /\ IsNum(b) THEN Num(a) = Num(b) ELSE a = b

----------------------------------------------------------------------------
(* Strings of digits and their parsing *)

Digits == <<"0", "1", "2", "3", "4", "5", "6", "7", "8", "9">>
IsDigit(c) == \E i \in 1..10 : Digits[i] = c
DigitVal(c) == (CHOOSE i \in 1..10 : Digits[i] = c) - 1

RECURSIVE RemoveSpaces(_)
\* value.replace(" ", "")
RemoveSpaces(s) ==
    IF s = <<>> THEN <<>>
    ELSE IF Head(s) = " " THEN RemoveSpaces(Tail(s))
    ELSE <<Head(s)>> \o RemoveSpaces(Tail(s))

HasSpace(s) == \E i \in 1..Len(s) : s[i] = " "

RECURSIVE StripLeft(_)
StripLeft(s) == IF s # <<>> /\ Head(s) = " " THEN StripLeft(Tail(s)) ELSE s
RECURSIVE StripRight(_)
StripRight(s) ==
    IF s # <<>> /\ s[Len(s)] = " " THEN StripRight(SubSeq(s, 1, Len(s) - 1)) ELSE s
\* int() and float() ignore white space around the number, not inside it.
Strip(s) == StripLeft(StripRight(s))

AllDigits(s) == \A i \in 1..Len(s) : IsDigit(s[i])

RECURSIVE DigitsVal(_)
\* The number a sequence of digits denotes (0 for the empty sequence).
DigitsVal(s) ==
    IF s = <<>> THEN 0 ELSE (DigitsVal(SubSeq(s, 1, Len(s) - 1)) * 10) + DigitVal(s[Len(s)])

HasSign(s) == s # <<>> /\ Head(s) \in {"-", "+"}
Unsigned(s) == IF HasSign(s) THEN Tail(s) ELSE s
SignOf(s) == IF s # <<>> /\ Head(s) = "-" THEN -1 ELSE 1

\* int(str): an optional sign and at least one digit, white space around it
\* ignored; anything else is a ValueError.
IntOfDigits(sign, b) ==
    IF b # <<>> /\ AllDigits(b) THEN IntV(sign * DigitsVal(b)) ELSE Raise("ValueError")
IntOfStripped(t) == IntOfDigits(SignOf(t), Unsigned(t))
IntOfStr(s) == IntOfStripped(Strip(s))

\* The position of the first "." of s, 0 when s has none.
DotAt(s) ==
    IF \E i \in 1..Len(s) : s[i] = "."
    THEN CHOOSE i \in 1..Len(s) : s[i] = "." /\ \A j \in 1..(i - 1) : s[j] # "."
    ELSE 0

\* float(str): an optional sign, digits with at most one ".", at least one
\* digit, white space around it ignored; anything else is a ValueError.
\* The strings of the model carry at most FracDigits digits after the ".".
FloatOfDigits(sign, ip, fp) ==
    IF AllDigits(ip) /\ AllDigits(fp) /\ Len(ip) + Len(fp) > 0 /\ Len(fp) <= FracDigits
    THEN FloatV(sign * ((DigitsVal(ip) * Unit) + (DigitsVal(fp) * Pow10(FracDigits - Len(fp)))))
    ELSE Raise("ValueError")
FloatOfUnsigned(sign, b, dot) ==
    FloatOfDigits(sign,
                  IF dot = 0 THEN b ELSE SubSeq(b, 1, dot - 1),
                  IF dot = 0 THEN <<>> ELSE SubSeq(b, dot + 1, Len(b)))
FloatOfStripped(t) == FloatOfUnsigned(SignOf(t), Unsigned(t), DotAt(Unsigned(t)))
FloatOfStr(s) == FloatOfStripped(Strip(s))

\* The quotient of a by b > 0 rounded toward zero, as int(float) truncates.
TruncDiv(a, b) == IF a >= 0 THEN a \div b ELSE -((-a) \div b)

\* int(value) of any value.
PyInt(x) ==
    CASE x.t = "int" -> x
      [] x.t = "float" -> IntV(TruncDiv(x.v, Unit))
      [] x.t = "str" -> IntOfStr(x.s)
      [] x.t = "datestr" -> Raise("ValueError")
      [] OTHER -> Raise("TypeError")

\* float(value) of any value.
PyFloat(x) ==
    CASE x.t = "int" -> FloatV(x.v * Unit)
      [] x.t = "float" -> x
      [] x.t = "str" -> FloatOfStr(x.s)
      [] x.t = "datestr" -> Raise("ValueError")
      [] OTHER -> Raise("TypeError")

\* round(x, ndigits) of a float: to the nearest multiple of 10^-ndigits,
\* a tie going to the even multiple.  The result is a float.
HalfEven(u, step) ==
    LET q == u \div step
        r == u % step
    IN IF 2 * r < step THEN q * step
       ELSE IF 2 * r > step THEN (q + 1) * step
       ELSE IF (q % 2) = 0 THEN q * step ELSE (q + 1) * step

PyRound(x, ndigits) == FloatV(HalfEven(Num(x), Unit \div Pow10(ndigits)))

----------------------------------------------------------------------------
(* Dates *)

IsLeap(y) == ((y % 4) = 0 /\ (y % 100) # 0) \/ (y % 400) = 0

DaysInMonth(y, m) ==
    CASE m \in {1, 3, 5, 7, 8, 10, 12} -> 31
      [] m \in {4, 6, 9, 11} -> 30
      [] OTHER -> IF IsLeap(y) THEN 29 ELSE 28

RECURSIVE DaysBeforeMonth(_, _)
DaysBeforeMonth(y, m) ==
    IF m = 1 THEN 0 ELSE DaysBeforeMonth(y, m - 1) + DaysInMonth(y, m - 1)

\* date.toordinal(): the day number in the proleptic Gregorian calendar.
ToOrdinal(dt) ==
    LET p == dt.y - 1
    IN (365 * p) + (p \div 4) - (p \div 100) + (p \div 400)
       + DaysBeforeMonth(dt.y, dt.m) + dt.d

\* date - date, as a number of days (a timedelta of whole days).
DateDiff(a, b) == ToOrdinal(a) - ToOrdinal(b)

\* datetime.strptime(x, format).date() on the text of a date: the month text
\* must denote a month and the day must be a day of that month.
StrpDate(x) ==
    IF x.mon \in 1..12 /\ x.year \in 1..9999 /\ x.day \in 1..DaysInMonth(x.year, x.mon)
    THEN DateV(x.year, x.mon, x.day)
    ELSE Raise("ValueError")

TwoDigits(n) == <<Digits[((n \div 10) % 10) + 1], Digits[(n % 10) + 1]>>
\* date.isoformat(): "YYYY-MM-DD".
IsoFormat(dt) ==
    StrV(TwoDigits(dt.y \div 100) \o TwoDigits(dt.y % 100) \o <<"-">>
         \o TwoDigits(dt.m) \o <<"-">> \o TwoDigits(dt.d))

----------------------------------------------------------------------------
(* Field converters *)

\* An int converter that leaves the spaces to int().
SpacedIntKeepingSpaces(x) == PyInt(x)

\* _spaced_int
SpacedInt(x) ==
    PyInt(IF x.t = "str" /\ HasSpace(x.s) THEN StrV(RemoveSpaces(x.s)) ELSE x)

\* _spaced_float
SpacedFloat(x) ==
    PyFloat(IF x.t = "str" /\ HasSpace(x.s) THEN StrV(RemoveSpaces(x.s)) ELSE x)

\* _spaced_optional_int
SpacedOptionalInt(x) == IF x # NoneV THEN SpacedInt(x) ELSE NoneV

\* _spaced_optional_float
SpacedOptionalFloat(x) == IF x # NoneV THEN SpacedFloat(x) ELSE NoneV

\* The converter of GasBill.current_date and GasBill.previous_date:
\* '"," in x' needs a str; the format is picked by the comma.
GasDate(x) ==
    CASE x.t = "datestr" ->
           IF x.fmt \in {"comma", "space"} THEN StrpDate(x) ELSE Raise("ValueError")
      [] x.t = "str" -> Raise("ValueError")
      [] OTHER -> Raise("TypeError")

\* The converter of WaterBill.read_date: strptime(x, "%m/%d/%Y").date().
WaterDate(x) ==
    CASE x.t = "datestr" -> IF x.fmt = "slash" THEN StrpDate(x) ELSE Raise("ValueError")
      [] x.t = "str" -> Raise("ValueError")
      [] OTHER -> Raise("TypeError")

\* A field declared without a ConversionDescriptor keeps what it is given.
Plain(x) == x

\* ConversionDescriptor._converter applied by name.
ApplyConverter(c, x) ==
    CASE c = "_spaced_int" -> SpacedInt(x)
      [] c = "_spaced_float" -> SpacedFloat(x)
      [] c = "_spaced_optional_int" -> SpacedOptionalInt(x)
      [] c = "_spaced_optional_float" -> SpacedOptionalFloat(x)
      [] c = "gas_date" -> GasDate(x)
      [] c = "water_date" -> WaterDate(x)
      [] c = "int" -> PyInt(x)
      [] c = "float" -> PyFloat(x)
      [] OTHER -> Plain(x)

----------------------------------------------------------------------------
(* Arithmetic on Python values *)

Ok == [t |-> "ok"]
\* An exception with the text its message starts with.
RaiseMsg(e, msg) == [t |-> "raise", e |-> e, msg |-> msg]

\* a + b: a number when both are numbers (a float as soon as one is), a
\* TypeError when one is None.
PyAdd(a, b) ==
    IF IsRaise(a) THEN a
    ELSE IF IsRaise(b) THEN b
    ELSE IF ~(IsNum(a) /\ IsNum(b)) THEN Raise("TypeError")
    ELSE IF a.t = "int" /\ b.t = "int" THEN IntV(a.v + b.v)
    ELSE FloatV(Num(a) + Num(b))

\* a - b of two ints.
PySub(a, b) ==
    IF IsRaise(a) THEN a
    ELSE IF IsRaise(b) THEN b
    ELSE IF ~(IsNum(a) /\ IsNum(b)) THEN Raise("TypeError")
    ELSE IF a.t = "int" /\ b.t = "int" THEN IntV(a.v - b.v)
    ELSE FloatV(Num(a) - Num(b))

\* n * x of an int n and a number x (every product of the code has an int
\* field as its left factor).
PyMul(n, x) ==
    IF IsRaise(n) THEN n
    ELSE IF IsRaise(x) THEN x
    ELSE IF ~(n.t = "int" /\ IsNum(x)) THEN Raise("TypeError")
    ELSE IF x.t = "int" THEN IntV(n.v * x.v)
    ELSE FloatV(n.v * x.v)

\* round(x, ndigits), an exception in x passing through.
Round(x, ndigits) == IF IsRaise(x) THEN x ELSE PyRound(x, ndigits)

----------------------------------------------------------------------------
(* The bill classes: fields in declaration order *)

Field(name, conv, default, required) ==
    [name |-> name, conv |-> conv, default |-> default, required |-> required]

Epoch == DateTimeV(1970, 1, 1)

GasFields ==
    << Field("current_method", "plain", NoneV, TRUE),
       Field("previous_method", "plain", NoneV, TRUE),
       Field("days_since_last_reading", "_spaced_int", IntV(0), FALSE),
       Field("current_date", "gas_date", Epoch, FALSE),
       Field("current_meter_reading", "_spaced_int", IntV(0), FALSE),
       Field("previous_date", "gas_date", Epoch, FALSE),
       Field("previous_meter_reading", "_spaced_int", IntV(0), FALSE),
       Field("measured_therms", "_spaced_optional_int", NoneV, FALSE),
       Field("thermal_factor", "_spaced_float", FloatV(0), FALSE),
       Field("total_therms", "_spaced_int", IntV(0), FALSE),
       Field("delivery_min_rate_usd", "_spaced_optional_float", FloatV(Dec(4, 1)), FALSE),
       Field("delivery_min_charge_usd", "_spaced_optional_float", NoneV, FALSE),
       Field("delivery_first_tier_rate_usd", "_spaced_optional_float", NoneV, FALSE),
       Field("delivery_off_peak_rate_usd", "_spaced_optional_float", NoneV, FALSE),
       Field("delivery_distribution_adjustment_rate_usd", "_spaced_float", IntV(0), FALSE),
       Field("delivery_total_usd", "_spaced_float", IntV(0), FALSE),
       Field("supply_rate_usd", "_spaced_float", IntV(0), FALSE),
       Field("supply_total_usd", "_spaced_float", IntV(0), FALSE),
       Field("paperless_bill_credit_usd", "_spaced_float", IntV(0), FALSE),
       Field("total_usd", "_spaced_float", IntV(0), FALSE) >>

WaterFields ==
    << Field("usage_type", "plain", NoneV, TRUE),
       Field("read_date", "water_date", Epoch, FALSE),
       Field("current_meter_reading", "int", IntV(0), FALSE),
       Field("usage", "int", IntV(0), FALSE),
       Field("water_charge", "float", IntV(0), FALSE),
       Field("sewer_charge", "float", IntV(0), FALSE),
       Field("past_due", "float", IntV(0), FALSE),
       Field("interest", "float", IntV(0), FALSE),
       Field("adjustments", "float", IntV(0), FALSE),
       Field("total", "float", IntV(0), FALSE) >>

Kinds == {"GasBill", "WaterBill"}
FieldsOf(kind) == IF kind = "GasBill" THEN GasFields ELSE WaterFields
NamesIn(fds) == {fds[i].name : i \in 1..Len(fds)}
FieldNames(kind) == NamesIn(FieldsOf(kind))
IndexIn(fds, name) == CHOOSE i \in 1..Len(fds) : fds[i].name = name
IndexOf(kind, name) == IndexIn(FieldsOf(kind), name)
FieldNamed(kind, name) == FieldsOf(kind)[IndexOf(kind, name)]

\* ConversionDescriptor.__set__: the converter of the field applied to the
\* value on its way into the instance.
DescriptorSet(kind, name, value) == ApplyConverter(FieldNamed(kind, name).conv, value)

----------------------------------------------------------------------------
(* Construction *)

\* What the generated __init__ stores for the field fd: the keyword argument, or
\* the field's default, sent through the field's descriptor.
InitValue(fd, values) ==
    IF fd.conv = "plain"
    THEN values[fd.name]
    ELSE ApplyConverter(fd.conv,
                        IF fd.name \in DOMAIN values THEN values[fd.name] ELSE fd.default)

\* The generated dataclass __init__ called as cls(**values): a TypeError for
\* an unknown keyword or a missing required argument, else the fields are
\* assigned in declaration order and the first failing converter's exception
\* ends the construction.
RequiredIn(fds) == {fds[i].name : i \in {j \in 1..Len(fds) : fds[j].required}}
\* The record once every field has been assigned vals[i], or the exception of
\* the first assignment that raises.
Assigned(kind, fds, vals) ==
    IF \E i \in 1..Len(fds) : IsRaise(vals[i])
    THEN vals[CHOOSE i \in 1..Len(fds) :
                  IsRaise(vals[i]) /\ \A j \in 1..(i - 1) : ~IsRaise(vals[j])]
    ELSE [t |-> "bill", kind |-> kind,
          f |-> [name \in NamesIn(fds) |-> vals[IndexIn(fds, name)]]]
DataclassInitOf(kind, fds, values) ==
    IF ~(DOMAIN values \subseteq NamesIn(fds)) \/ ~(RequiredIn(fds) \subseteq DOMAIN values)
    THEN Raise("TypeError")
    ELSE Assigned(kind, fds, [i \in 1..Len(fds) |-> InitValue(fds[i], values)])
DataclassInit(kind, values) == DataclassInitOf(kind, FieldsOf(kind), values)

\* round(self.total_therms * self.supply_rate_usd, 2)
DerivedSupplyTotal(b) == Round(PyMul(b.f.total_therms, b.f.supply_rate_usd), 2)

\* A __post_init__ that derives the supply total whatever was supplied.
GasPostInitAlways(b) ==
    [b EXCEPT !.f.supply_total_usd = SpacedFloat(DerivedSupplyTotal(b))]

\* GasBill.__post_init__: the supply total is derived when it reads as zero.
GasPostInit(b) ==
    IF PyEq(b.f.supply_total_usd, IntV(0))
    THEN [b EXCEPT !.f.supply_total_usd = SpacedFloat(DerivedSupplyTotal(b))]
    ELSE b

\* cls(**values): __init__, then __post_init__ where the class has one.
PostInit(b) ==
    IF IsRaise(b) THEN b
    ELSE IF b.kind = "GasBill" THEN GasPostInit(b)
    ELSE b
NewBill(kind, values) == PostInit(DataclassInit(kind, values))

----------------------------------------------------------------------------
(* Validation *)

\* A difference of dates that takes every month for 30 days.
GasDatesCalculated30(b) ==
    ((b.f.current_date.y - b.f.previous_date.y) * 360)
    + ((b.f.current_date.m - b.f.previous_date.m) * 30)
    + (b.f.current_date.d - b.f.previous_date.d)

\* calculated = self.current_date - self.previous_date, in days
GasDatesCalculated(b) == DateDiff(b.f.current_date, b.f.previous_date)

\* round() with a tie going away from zero.
HalfUp(u, step) ==
    IF u >= 0 THEN ((2 * u + step) \div (2 * step)) * step
    ELSE -(((2 * (-u) + step) \div (2 * step)) * step)

\* The therms rounded with ties going away from zero.
GasReadingsCalculatedHalfUp(b) ==
    LET x == PyMul(PySub(b.f.current_meter_reading, b.f.previous_meter_reading),
                   b.f.thermal_factor)
    IN IF IsRaise(x) THEN x ELSE FloatV(HalfUp(Num(x), Unit))

GasReadingsCalculated(b) ==
    Round(PyMul(PySub(b.f.current_meter_reading, b.f.previous_meter_reading),
                b.f.thermal_factor), 0)

\* A delivery sum that starts from the minimum charge printed on the bill.
GasDeliveryCalculatedFromCharge(b) ==
    Round(PyAdd(b.f.delivery_min_charge_usd,
                PyMul(b.f.total_therms,
                      PyAdd(b.f.delivery_first_tier_rate_usd,
                            b.f.delivery_distribution_adjustment_rate_usd))), 2)

GasDeliveryCalculated(b) ==
    Round(PyAdd(PyMul(b.f.days_since_last_reading, b.f.delivery_min_rate_usd),
                PyMul(b.f.total_therms,
                      PyAdd(b.f.delivery_first_tier_rate_usd,
                            b.f.delivery_distribution_adjustment_rate_usd))), 2)

\* A total without the paperless bill credit.
GasTotalsCalculatedNoCredit(b) ==
    Round(PyAdd(b.f.delivery_total_usd, b.f.supply_total_usd), 2)

GasTotalsCalculated(b) ==
    Round(PyAdd(PyAdd(b.f.delivery_total_usd, b.f.supply_total_usd),
                b.f.paperless_bill_credit_usd), 2)

DatesMsg == "Dates don't match"
ReadingsMsg == "Readings and therms don't match"
DeliveryMsg == "Delivery rates and therms don't match total"
TotalsMsg == "Totals don't match"
WaterMsg == "Changes don't sum to the total due."

\* The four checks in order on what each one calculated: the first failing
\* one raises.
GasChecks(b, dates, readings, delivery, totals) ==
    IF dates # b.f.days_since_last_reading.v
    THEN RaiseMsg("ValueError", DatesMsg)
    ELSE IF IsRaise(readings) THEN readings
    ELSE IF ~PyEq(readings, b.f.total_therms)
    THEN RaiseMsg("ValueError", ReadingsMsg)
    ELSE IF IsRaise(delivery) THEN delivery
    ELSE IF ~PyEq(delivery, b.f.delivery_total_usd)
    THEN RaiseMsg("ValueError", DeliveryMsg)
    ELSE IF IsRaise(totals) THEN totals
    ELSE IF ~PyEq(totals, b.f.total_usd)
    THEN RaiseMsg("ValueError", TotalsMsg)
    ELSE Ok

\* A validate without a totals check.
GasValidateNoTotals(b) ==
    GasChecks(b, GasDatesCalculated(b), GasReadingsCalculated(b),
              GasDeliveryCalculated(b), b.f.total_usd)

\* GasBill.validate
GasValidate(b) ==
    GasChecks(b, GasDatesCalculated(b), GasReadingsCalculated(b),
              GasDeliveryCalculated(b), GasTotalsCalculated(b))

\* A sum of the charges that leaves the adjustments out.
WaterCalculatedNoAdjustments(b) ==
    Round(PyAdd(PyAdd(PyAdd(b.f.water_charge, b.f.sewer_charge), b.f.past_due),
                b.f.interest), 2)

WaterCalculated(b) ==
    Round(PyAdd(PyAdd(PyAdd(PyAdd(b.f.water_charge, b.f.sewer_charge), b.f.past_due),
                      b.f.interest), b.f.adjustments), 2)

\* WaterBill.validate: the one check.
WaterValidate(b) ==
    IF ~PyEq(b.f.total, WaterCalculated(b))
    THEN RaiseMsg("ValueError", WaterMsg)
    ELSE Ok

Validate(b) == IF b.kind = "GasBill" THEN GasValidate(b) ELSE WaterValidate(b)

----------------------------------------------------------------------------
(* Rows and headers *)

GasHeader ==
    << "current_date", "days_since_last_reading", "current_meter_reading",
       "previous_meter_reading", "thermal_factor", "total_therms_used",
       "delivery_min_rate_usd", "delivery_first_tier_rate_usd",
       "delivery_distribution_adjustment_rate_usd", "delivery_total_usd",
       "supply_rate_usd", "supply_total_usd", "paperless_bill_credit_usd",
       "total_usd" >>

WaterHeader ==
    << "read_date", "reading", "usage_type", "usage", "water_charge_usd",
       "sewer_charge_usd", "past_due_usd", "adjustments_usd", "interest_usd",
       "total_usd" >>

\* Bill.to_header
ToHeader(kind) == IF kind = "GasBill" THEN GasHeader ELSE WaterHeader

\* GasBill.to_row
GasToRow(b) ==
    << IsoFormat(b.f.current_date), b.f.days_since_last_reading,
       b.f.current_meter_reading, b.f.previous_meter_reading, b.f.thermal_factor,
       b.f.total_therms, b.f.delivery_min_rate_usd, b.f.delivery_first_tier_rate_usd,
       b.f.delivery_distribution_adjustment_rate_usd, b.f.delivery_total_usd,
       b.f.supply_rate_usd, b.f.supply_total_usd, b.f.paperless_bill_credit_usd,
       b.f.total_usd >>

\* WaterBill.to_row
WaterToRow(b) ==
    << b.f.read_date, b.f.current_meter_reading, b.f.usage_type, b.f.usage,
       b.f.water_charge, b.f.sewer_charge, b.f.past_due, b.f.interest,
       b.f.adjustments, b.f.total >>

ToRow(b) == IF b.kind = "GasBill" THEN GasToRow(b) ELSE WaterToRow(b)

----------------------------------------------------------------------------
(* Documents, text and patterns *)

\* A text is a sequence of tokens.  A token is one character, or a section:
\* a stretch of the bill that one piece of a pattern matches, with the
\* strings its named groups capture there.
CharTok(c) == [t |-> "char", c |-> c]
Section(label, caps) == [t |-> "section", label |-> label, caps |-> caps]

\* The number of characters of a section: no piece of a pattern matches a
\* shorter text than "WATER $d.dd".
SectionLen == 11

TokLen(tok) == IF tok.t = "char" THEN 1 ELSE SectionLen

RECURSIVE StrLen(_)
\* len(text)
StrLen(text) == IF text = <<>> THEN 0 ELSE TokLen(Head(text)) + StrLen(Tail(text))

RECURSIVE JoinPages(_)
\* "\n\n".join(page.extract_text() for page in reader.pages)
JoinPages(pages) ==
    IF pages = <<>> THEN <<>>
    ELSE IF Len(pages) = 1 THEN pages[1]
    ELSE pages[1] \o <<CharTok("\n"), CharTok("\n")>> \o JoinPages(Tail(pages))

\* A pattern is the sequence of pieces it requires in order, with anything
\* between them (".*" under DOTALL).  A piece matches a section by its label;
\* pick says which of several candidate sections the regex engine settles on:
\* the last one after a greedy ".*", the first one otherwise.
Piece(label, pick) == [label |-> label, pick |-> pick]
Pattern(id, pieces) == [id |-> id, pieces |-> pieces]

Positions(label, text, from) ==
    {i \in from..Len(text) : text[i].t = "section" /\ text[i].label = label}

RECURSIVE Feasible(_, _, _)
Feasible(pieces, text, from) ==
    \/ pieces = <<>>
    \/ \E i \in Positions(Head(pieces).label, text, from) :
           Feasible(Tail(pieces), text, i + 1)

SetMax(S) == CHOOSE x \in S : \A y \in S : y <= x
SetMin(S) == CHOOSE x \in S : \A y \in S : x <= y

RECURSIVE PickSections(_, _, _)
PickSections(pieces, text, from) ==
    IF pieces = <<>> THEN <<>>
    ELSE LET cand == {i \in Positions(Head(pieces).label, text, from) :
                          Feasible(Tail(pieces), text, i + 1)}
             i == IF Head(pieces).pick = "last" THEN SetMax(cand) ELSE SetMin(cand)
         IN <<text[i]>> \o PickSections(Tail(pieces), text, i + 1)

\* dict.update: the entries of d, then those of e over them.
Update(d, e) ==
    [k \in DOMAIN d \cup DOMAIN e |-> IF k \in DOMAIN e THEN e[k] ELSE d[k]]

EmptyDict == [k \in {} |-> NoneV]

RECURSIVE GroupDict(_)
\* match.groupdict(): the captures of the sections the match settled on.
GroupDict(sections) ==
    IF sections = <<>> THEN EmptyDict
    ELSE Update(Head(sections).caps, GroupDict(Tail(sections)))

NoMatch == [t |-> "nomatch"]

\* re.search(pattern, text, flags=re.DOTALL): None, or the match's groupdict.
Search(pattern, text) ==
    IF Feasible(pattern.pieces, text, 1)
    THEN [t |-> "match", groups |-> GroupDict(PickSections(pattern.pieces, text, 1))]
    ELSE NoMatch

----------------------------------------------------------------------------
(* The pattern sets *)

\* Bill._patterns, what a subclass that sets none inherits: one pattern
\* without a named group.
BillPatterns ==
    << Pattern("NOT SET ON SUBCLASS", <<Piece("NOT SET ON SUBCLASS", "first")>>) >>

\* WaterBill._patterns: the usage table (its heading, then lazily the first
\* row after it), then one pattern per charge line.
WaterPatterns ==
    << Pattern("usage", <<Piece("Meter Number Read Date", "last"),
                          Piece("usage row", "first")>>),
       Pattern("WATER", <<Piece("WATER", "first")>>),
       Pattern("SEWER", <<Piece("SEWER", "first")>>),
       Pattern("Past Due", <<Piece("Past Due", "first")>>),
       Pattern("Interest", <<Piece("Interest", "first")>>),
       Pattern("Adjustments", <<Piece("Adjustments", "first")>>),
       Pattern("Total Due", <<Piece("Total Due", "first")>>) >>

\* GasBill._old_patterns: one pattern, every piece after a greedy ".*".
GasOldPatterns ==
    << Pattern("old",
               << Piece("In days", "last"),
                  Piece("current reading", "last"),
                  Piece("previous reading", "last"),
                  Piece("Thermal Factor", "last"),
                  Piece("Total therms used", "last"),
                  Piece("per day for", "last"),
                  Piece("First therms", "last"),
                  Piece("Distribution Adjustment", "last"),
                  Piece("GAS DELIVERY CHARGE", "last"),
                  Piece("GAS SUPPLY CHARGE", "last"),
                  Piece("Paperless Bill Credit", "last"),
                  Piece("TOTAL CURRENT CHARGES", "last") >>) >>

\* GasBill._current_patterns: one pattern, every piece after a greedy ".*".
GasCurrentPatterns ==
    << Pattern("current",
               << Piece("BILLING PERIOD", "last"),
                  Piece("amount due", "last"),
                  Piece("DETAIL OF CURRENT CHARGES", "last"),
                  Piece("Delivery Services", "last"),
                  Piece("Service Period", "last"),
                  Piece("service row", "last"),
                  Piece("RATE R-3B Residential Heating", "last"),
                  Piece("Minimum Charge", "last"),
                  Piece("Delivery Off-Peak", "last"),
                  Piece("Distribution Adjustment", "last"),
                  Piece("Total Delivery Services", "last"),
                  Piece("Supply Services", "last"),
                  Piece("SUPPLIER National Grid", "last"),
                  Piece("Gas Supply Off-Peak", "last"),
                  Piece("Total Supply Services", "last"),
                  Piece("Other Charges/Adjustments", "last"),
                  Piece("Paperless Billing Credit", "last"),
                  Piece("Total Other Charges/Adjustments", "last") >>) >>

\* A PdfReader as pick_patterns reads it: its pages.
Reader(pages) == [t |-> "reader", pages |-> pages]

PatternSet(ps) == [t |-> "patterns", ps |-> ps]

\* A pick_patterns of GasBill that takes every document of two pages or more
\* for an old bill.
PickPatternsFromTwo(kind, text, reader) ==
    IF kind = "GasBill"
    THEN IF reader.t # "reader" THEN Raise("AttributeError")
         ELSE IF Len(reader.pages) >= 2 THEN PatternSet(GasOldPatterns)
         ELSE PatternSet(GasCurrentPatterns)
    ELSE PatternSet(IF kind = "Bill" THEN BillPatterns ELSE WaterPatterns)

\* A pick_patterns of GasBill that goes by the text: the old patterns when
\* the old pattern matches it, whatever the number of pages.
PickPatternsByText(kind, text, reader) ==
    IF kind = "GasBill"
    THEN IF reader.t # "reader" THEN Raise("AttributeError")
         ELSE IF Feasible(GasOldPatterns[1].pieces, text, 1) THEN PatternSet(GasOldPatterns)
         ELSE PatternSet(GasCurrentPatterns)
    ELSE PatternSet(IF kind = "Bill" THEN BillPatterns ELSE WaterPatterns)

\* cls.pick_patterns(text, reader): Bill's returns cls._patterns; GasBill's
\* reads len(reader.pages), which only a PdfReader has.
PickPatterns(kind, text, reader) ==
    IF kind = "GasBill"
    THEN IF reader.t # "reader" THEN Raise("AttributeError")
         ELSE IF Len(reader.pages) = 2 THEN PatternSet(GasOldPatterns)
         ELSE PatternSet(GasCurrentPatterns)
    ELSE PatternSet(IF kind = "Bill" THEN BillPatterns ELSE WaterPatterns)

----------------------------------------------------------------------------
(* Extraction *)

\* A document: whether it is encrypted and with which password, and the text
\* of each of its pages.
Document(encrypted, password, pages) ==
    [encrypted |-> encrypted, password |-> password, pages |-> pages]

\* A read_pdf that goes to the pages without asking whether a password was
\* given: an encrypted document read without one fails in the text
\* extraction.
ReadPdfTextFirst(doc, password) ==
    IF doc.encrypted /\ password # doc.password
    THEN RaiseMsg("FileNotDecryptedError", "File has not been decrypted")
    ELSE [t |-> "text", text |-> JoinPages(doc.pages)]

\* read_pdf(file, password): the text of the document, a str.  A wrong
\* password leaves the reader undecrypted and the text extraction of pypdf
\* fails.
ReadPdf(doc, password) ==
    IF doc.encrypted /\ password = NoneV
    THEN RaiseMsg("RuntimeError", "Cannot read an encrypted document without a password")
    ELSE IF doc.encrypted /\ password # doc.password
    THEN RaiseMsg("FileNotDecryptedError", "File has not been decrypted")
    ELSE [t |-> "text", text |-> JoinPages(doc.pages)]

\* The first pattern, in order, that finds no match in the text (0: none).
FirstTrue(missed) ==
    IF \E i \in 1..Len(missed) : missed[i]
    THEN CHOOSE i \in 1..Len(missed) : missed[i] /\ \A j \in 1..(i - 1) : ~missed[j]
    ELSE 0
FirstMismatch(patterns, text) ==
    FirstTrue([i \in 1..Len(patterns) |-> ~Feasible(patterns[i].pieces, text, 1)])

RECURSIVE MergeAll(_, _)
\* values.update(match.groupdict()) for each pattern in order.
MergeAll(patterns, text) ==
    IF patterns = <<>> THEN EmptyDict
    ELSE Update(MergeAll(SubSeq(patterns, 1, Len(patterns) - 1), text),
                Search(patterns[Len(patterns)], text).groups)

PatternError(pattern, text) ==
    [t |-> "raise", e |-> "RuntimeError", msg |-> "Cannot parse bill with pattern",
     pattern |-> pattern.id, text |-> text]

\* The loop of extract_fields over the picked patterns, then cls(**values).
Build(kind, text, values) ==
    IF DOMAIN values = {}
    THEN [t |-> "raise", e |-> "RuntimeError", msg |-> "Cannot parse bill", text |-> text]
    ELSE NewBill(kind, values)
SearchFrom(kind, patterns, text, mismatch) ==
    IF mismatch # 0
    THEN PatternError(patterns[mismatch], text)
    ELSE Build(kind, text, MergeAll(patterns, text))
SearchAndBuild(kind, patterns, text) ==
    SearchFrom(kind, patterns, text, FirstMismatch(patterns, text))

\* "text, reader = read_pdf(file, password)": read_pdf returns one str, and
\* unpacking a str into two names takes its characters: a ValueError unless
\* the str has exactly two, which then become text and reader.
UnpackTextReader(result) ==
    IF StrLen(result.text) # 2
    THEN Raise("ValueError")
    ELSE [t |-> "pair", text |-> <<result.text[1]>>, reader |-> StrV(<<result.text[2].c>>)]

\* Bill.extract_fields(file, password)
Picked(kind, text, ps) ==
    IF IsRaise(ps) THEN ps ELSE SearchAndBuild(kind, ps.ps, text)
Unpacked(kind, u) ==
    IF IsRaise(u) THEN u ELSE Picked(kind, u.text, PickPatterns(kind, u.text, u.reader))
Read(kind, r) ==
    IF IsRaise(r) THEN r ELSE Unpacked(kind, UnpackTextReader(r))
ExtractFields(kind, doc, password) == Read(kind, ReadPdf(doc, password))

----------------------------------------------------------------------------
(* The bills of the tests, as the text of their sections *)

\* tests_data/gas-old.pdf: Mar 19 to Apr 19 2024, 31 days, 45 therms.
OldBillText ==
    << Section("In days",
            [days_since_last_reading |-> StrV(<<"3", "1">>)]),
       Section("current reading",
            [current_date |-> DateStrV("space", 4, 19, 2024), current_method |-> StrV(<<"A", "C", "T", "U", "A", "L">>), current_meter_reading |-> StrV(<<"1", "8", "0", "5">>)]),
       Section("previous reading",
            [previous_date |-> DateStrV("space", 3, 19, 2024), previous_method |-> StrV(<<"A", "C", "T", "U", "A", "L">>), previous_meter_reading |-> StrV(<<"1", "7", "6", "1">>)]),
       Section("Thermal Factor",
            [thermal_factor |-> StrV(<<"1", ".", "0", "3", "0", "3">>)]),
       Section("Total therms used",
            [total_therms |-> StrV(<<"4", "5">>)]),
       Section("per day for",
            [delivery_min_rate_usd |-> StrV(<<".", "4", "0", "0", "0">>)]),
       Section("First therms",
            [delivery_first_tier_rate_usd |-> StrV(<<".", "9", "5", "3", "7">>)]),
       Section("Distribution Adjustment",
            [delivery_distribution_adjustment_rate_usd |-> StrV(<<"0", ".", "4", "5", "7", "4", "0">>)]),
       Section("GAS DELIVERY CHARGE",
            [delivery_total_usd |-> StrV(<<"7", "5", ".", "9", "0">>)]),
       Section("GAS SUPPLY CHARGE",
            [supply_rate_usd |-> StrV(<<".", "8", "1", "2", "2", "0">>)]),
       Section("Paperless Bill Credit",
            [paperless_bill_credit_usd |-> StrV(<<"-", ".", "3", "8">>)]),
       Section("TOTAL CURRENT CHARGES",
            [total_usd |-> StrV(<<"1", "1", "2", ".", "0", "7">>)]) >>

\* An old-layout bill whose every rounding is a tie: 4 CCF x 1.125 = 4.5
\* therms, 30 x .5 + 4 x (.5 + .03125) = 17.125, 4 x .28125 = 1.125.
TieBillText ==
    << Section("In days",
            [days_since_last_reading |-> StrV(<<"3", "0">>)]),
       Section("current reading",
            [current_date |-> DateStrV("space", 3, 31, 2024), current_method |-> StrV(<<"A", "C", "T", "U", "A", "L">>), current_meter_reading |-> StrV(<<"1", "8", "0", "4">>)]),
       Section("previous reading",
            [previous_date |-> DateStrV("space", 3, 1, 2024), previous_method |-> StrV(<<"A", "C", "T", "U", "A", "L">>), previous_meter_reading |-> StrV(<<"1", "8", "0", "0">>)]),
       Section("Thermal Factor",
            [thermal_factor |-> StrV(<<"1", ".", "1", "2", "5">>)]),
       Section("Total therms used",
            [total_therms |-> StrV(<<"4">>)]),
       Section("per day for",
            [delivery_min_rate_usd |-> StrV(<<".", "5">>)]),
       Section("First therms",
            [delivery_first_tier_rate_usd |-> StrV(<<".", "5">>)]),
       Section("Distribution Adjustment",
            [delivery_distribution_adjustment_rate_usd |-> StrV(<<"0", ".", "0", "3", "1", "2", "5">>)]),
       Section("GAS DELIVERY CHARGE",
            [delivery_total_usd |-> StrV(<<"1", "7", ".", "1", "2">>)]),
       Section("GAS SUPPLY CHARGE",
            [supply_rate_usd |-> StrV(<<".", "2", "8", "1", "2", "5">>)]),
       Section("Paperless Bill Credit",
            [paperless_bill_credit_usd |-> StrV(<<"-", ".", "5", "0">>)]),
       Section("TOTAL CURRENT CHARGES",
            [total_usd |-> StrV(<<"1", "7", ".", "7", "4">>)]) >>

\* tests_data/gas.pdf: Jun 20 to Jul 20, 2024, printed as 32 days, 5 therms.
CurrentBillText ==
    << Section("BILLING PERIOD",
            [previous_date |-> DateStrV("comma", 6, 20, 2024), current_date |-> DateStrV("comma", 7, 20, 2024)]),
       Section("amount due",
            [total_usd |-> StrV(<<"1", "9", ".", "2", "5">>)]),
       Section("DETAIL OF CURRENT CHARGES", EmptyDict),
       Section("Delivery Services", EmptyDict),
       Section("Service Period", EmptyDict),
       Section("service row",
            [days_since_last_reading |-> StrV(<<"3", "2">>), current_meter_reading |-> StrV(<<"1", "8", "2", "9">>), current_method |-> StrV(<<"A", "c", "t", "u", "a", "l">>), previous_meter_reading |-> StrV(<<"1", "8", "2", "4">>), previous_method |-> StrV(<<"A", "c", "t", "u", "a", "l">>), measured_therms |-> StrV(<<"5">>), thermal_factor |-> StrV(<<"1", ".", "0", "2", "9", "2", "3">>), total_therms |-> StrV(<<"5">>)]),
       Section("RATE R-3B Residential Heating", EmptyDict),
       Section("Minimum Charge",
            [delivery_min_charge_usd |-> StrV(<<"1", "2", ".", "8", "0">>)]),
       Section("Delivery Off-Peak",
            [delivery_first_tier_rate_usd |-> StrV(<<"0", ".", "4", "9", "9", "1">>)]),
       Section("Distribution Adjustment",
            [delivery_distribution_adjustment_rate_usd |-> StrV(<<"0", ".", "4", "8", "5", "8">>)]),
       Section("Total Delivery Services",
            [delivery_total_usd |-> StrV(<<"1", "7", ".", "7", "2">>)]),
       Section("Supply Services", EmptyDict),
       Section("SUPPLIER National Grid", EmptyDict),
       Section("Gas Supply Off-Peak",
            [supply_rate_usd |-> StrV(<<"0", ".", "3", "8", "1", "3">>)]),
       Section("Total Supply Services",
            [supply_total_usd |-> StrV(<<"1", ".", "9", "1">>)]),
       Section("Other Charges/Adjustments", EmptyDict),
       Section("Paperless Billing Credit",
            [paperless_bill_credit_usd |-> StrV(<<"-", "0", ".", "3", "8">>)]),
       Section("Total Other Charges/Adjustments", EmptyDict) >>

\* tests_data/municipal-water-sewer.pdf: read 11/25/2023, $2.70 + $7.33.
WaterBillText ==
    << Section("Meter Number Read Date", EmptyDict),
       Section("usage row",
            [read_date |-> DateStrV("slash", 11, 25, 2023), current_meter_reading |-> StrV(<<"7", "4", "3">>), usage_type |-> StrV(<<"A", "c", "t", "u", "a", "l">>), usage |-> StrV(<<"1">>)]),
       Section("WATER",
            [water_charge |-> StrV(<<"2", ".", "7", "0">>)]),
       Section("SEWER",
            [sewer_charge |-> StrV(<<"7", ".", "3", "3">>)]),
       Section("Past Due",
            [past_due |-> StrV(<<"0", ".", "0", "0">>)]),
       Section("Interest",
            [interest |-> StrV(<<"0", ".", "0", "0">>)]),
       Section("Adjustments",
            [adjustments |-> StrV(<<"0", ".", "0", "0">>)]),
       Section("Total Due",
            [total |-> StrV(<<"1", "0", ".", "0", "3">>)]) >>

\* The mapping extraction hands to the constructor for each of them.
OldValues == Search(GasOldPatterns[1], OldBillText).groups
TieValues == Search(GasOldPatterns[1], TieBillText).groups
CurrentValues == Search(GasCurrentPatterns[1], CurrentBillText).groups
WaterValues == MergeAll(WaterPatterns, WaterBillText)

----------------------------------------------------------------------------
(* The inputs of the model *)

\* A water record whose sum is a tie: .125 + .25 + 0 + 0 + .25 = .625.
WaterTieValues ==
    [usage_type |-> StrV(<<"A", "c", "t", "u", "a", "l">>), read_date |-> DateStrV("slash", 1, 25, 2024), current_meter_reading |-> StrV(<<"1", "0">>),
     usage |-> StrV(<<"1">>), water_charge |-> StrV(<<"0", ".", "1", "2", "5">>), sewer_charge |-> StrV(<<"0", ".", "2", "5">>), past_due |-> StrV(<<"0", ".", "0", "0">>),
     interest |-> StrV(<<"0", ".", "0", "0">>), adjustments |-> StrV(<<"0", ".", "2", "5">>), total |-> StrV(<<"0", ".", "6", "2">>)]

\* Other raw values a gas field may be given at construction.
GasAlternatives ==
    { <<"days_since_last_reading", StrV(<<"3", "0">>)>>,
      <<"days_since_last_reading", StrV(<<"3", " ", "1">>)>>,
      <<"current_date", DateStrV("space", 4, 20, 2024)>>,
      <<"current_date", DateStrV("comma", 4, 19, 2024)>>,
      <<"current_date", DateStrV("space", 2, 30, 2024)>>,
      <<"current_date", DateStrV("slash", 4, 19, 2024)>>,
      <<"previous_date", DateStrV("comma", 6, 18, 2024)>>,
      <<"current_meter_reading", StrV(<<"1", " ", "8", "0", "5">>)>>,
      <<"current_meter_reading", StrV(<<"1", "8", "0", "6">>)>>,
      <<"previous_meter_reading", StrV(<<"1", "7", "6", "0">>)>>,
      <<"thermal_factor", StrV(<<"1", ".", " ", "0", "3", "0", "3">>)>>,
      <<"thermal_factor", StrV(<<"1", ".", "1", "2", "5">>)>>,
      <<"total_therms", StrV(<<"4", "6">>)>>,
      <<"total_therms", StrV(<<"4", " ", "5">>)>>,
      <<"measured_therms", StrV(<<"5", "x">>)>>,
      <<"delivery_min_rate_usd", StrV(<<".", "4">>)>>,
      <<"delivery_min_rate_usd", NoneV>>,
      <<"delivery_first_tier_rate_usd", StrV(<<".", "9", "5", "3", "8">>)>>,
      <<"delivery_first_tier_rate_usd", NoneV>>,
      <<"delivery_distribution_adjustment_rate_usd", StrV(<<"0", ".", "4", "5", "7", "5">>)>>,
      <<"delivery_total_usd", StrV(<<"7", "5", ".", "9", "1">>)>>,
      <<"delivery_total_usd", StrV(<<"7", " ", "5", ".", "9", "0">>)>>,
      <<"supply_rate_usd", StrV(<<".", "5">>)>>,
      <<"supply_total_usd", StrV(<<"0">>)>>,
      <<"supply_total_usd", StrV(<<"0", ".", "0", "0">>)>>,
      <<"supply_total_usd", StrV(<<"3", "6", ".", "5", "5">>)>>,
      <<"supply_total_usd", StrV(<<"1", ".", "1", "3">>)>>,
      <<"paperless_bill_credit_usd", StrV(<<"0">>)>>,
      <<"total_usd", StrV(<<"1", "1", "2", ".", "0", "8">>)>>,
      <<"total_usd", StrV(<<"1", ".", "2", ".", "3">>)>> }

\* Other raw values a water field may be given at construction.
WaterAlternatives ==
    { <<"read_date", DateStrV("slash", 2, 30, 2023)>>,
      <<"read_date", DateStrV("space", 11, 25, 2023)>>,
      <<"read_date", NoneV>>,
      <<"current_meter_reading", StrV(<<"7", " ", "4", "3">>)>>,
      <<"usage", StrV(<<" ", "1", " ">>)>>,
      <<"water_charge", StrV(<<"2", ".", "7", "1">>)>>,
      <<"water_charge", StrV(<<"2", "x", "7", "0">>)>>,
      <<"sewer_charge", StrV(<<"7", ".", "3", "4">>)>>,
      <<"past_due", StrV(<<"0", ".", "5", "0">>)>>,
      <<"interest", StrV(<<"1", ".", "0", "0">>)>>,
      <<"adjustments", StrV(<<"2", ".", "0", "0">>)>>,
      <<"total", StrV(<<"1", "0", ".", "0", "4">>)>>,
      <<"total", StrV(<<"1", "3", ".", "0", "3">>)>>,
      <<"total", StrV(<<"0", ".", "6", "3">>)>> }

\* Values assigned to a field of an existing gas record.
GasAssignments ==
    { <<"total_usd", IntV(-100)>>,
      <<"total_usd", StrV(<<"1", "1", "2", ".", "0", "7">>)>>,
      <<"total_usd", FloatV(Dec(1774, 2))>>,
      <<"supply_total_usd", IntV(0)>>,
      <<"supply_total_usd", FloatV(Dec(40, 0))>>,
      <<"total_therms", IntV(46)>>,
      <<"total_therms", StrV(<<"4", " ", "5">>)>>,
      <<"supply_rate_usd", FloatV(Dec(5, 1))>>,
      <<"days_since_last_reading", IntV(30)>>,
      <<"current_date", DateStrV("comma", 7, 20, 2024)>>,
      <<"current_date", DateV(2024, 7, 20)>>,
      <<"previous_date", DateStrV("space", 3, 20, 2024)>>,
      <<"current_meter_reading", IntV(1810)>>,
      <<"thermal_factor", FloatV(Dec(1, 0))>>,
      <<"delivery_first_tier_rate_usd", NoneV>>,
      <<"delivery_first_tier_rate_usd", FloatV(Dec(5, 1))>>,
      <<"delivery_total_usd", FloatV(Dec(7590, 2))>>,
      <<"delivery_total_usd", StrV(<<"1", "7", ".", "7", "2">>)>>,
      <<"paperless_bill_credit_usd", IntV(0)>>,
      <<"current_method", StrV(<<"E", "S", "T", "I", "M", "A", "T", "E", "D">>)>> }

\* Values assigned to a field of an existing water record.
WaterAssignments ==
    { <<"total", IntV(-100)>>,
      <<"total", StrV(<<"1", "0", ".", "0", "3">>)>>,
      <<"total", FloatV(Dec(62, 2))>>,
      <<"water_charge", FloatV(Dec(125, 3))>>,
      <<"water_charge", StrV(<<"3", ".", "7", "0">>)>>,
      <<"sewer_charge", NoneV>>,
      <<"interest", FloatV(Dec(1, 0))>>,
      <<"adjustments", FloatV(Dec(2, 0))>>,
      <<"read_date", DateStrV("slash", 12, 25, 2023)>>,
      <<"usage", IntV(2)>>,
      <<"usage_type", StrV(<<"E", "s", "t", "i", "m", "a", "t", "e", "d">>)>> }

\* d with the entry of name replaced, or removed.
With(d, name, value) == [k \in DOMAIN d \cup {name} |-> IF k = name THEN value ELSE d[k]]
Without(d, name) == [k \in DOMAIN d \ {name} |-> d[k]]

\* A mapping of the tests, one with one entry replaced, or one with one entry
\* left out.
Variants(bases, alternatives) ==
    bases
    \cup {With(d, a[1], a[2]) : d \in bases, a \in alternatives}
    \cup UNION {{Without(d, k) : k \in DOMAIN d} : d \in bases}

GasInputs == Variants({OldValues, TieValues, CurrentValues}, GasAlternatives)
WaterInputs == Variants({WaterValues, WaterTieValues}, WaterAlternatives)
InputsOf(kind) == IF kind = "GasBill" THEN GasInputs ELSE WaterInputs
AssignmentsOf(kind) == IF kind = "GasBill" THEN GasAssignments ELSE WaterAssignments

\* The number of assignments made to one record.
MaxAssign == 1

\* text without its sections of one label.
DropSection(text, label) ==
    SelectSeq(text, LAMBDA tok : ~(tok.t = "section" /\ tok.label = label))

Labels(text) == {text[i].label : i \in {j \in 1..Len(text) : text[j].t = "section"}}

\* A bill of the tests, or one with one of its sections missing.
TextsFrom(text) == {text} \cup {DropSection(text, l) : l \in Labels(text)}

BillTexts == TextsFrom(WaterBillText) \cup TextsFrom(OldBillText) \cup TextsFrom(CurrentBillText)

\* The text on one page, cut in two pages, or followed by two pages without
\* text.
Layouts(text) ==
    { <<text>>,
      <<SubSeq(text, 1, Len(text) \div 2), SubSeq(text, (Len(text) \div 2) + 1, Len(text))>>,
      <<text, <<>>, <<>>>> }

\* Documents with next to no text: pages without a text layer.
BlankPages ==
    { << <<>> >>, << <<>>, <<>> >>, << <<CharTok("a"), CharTok("b")>> >>,
      << <<CharTok("a")>>, <<>> >> }

GoodPassword == StrV(<<"p">>)
WrongPassword == StrV(<<"q">>)
Passwords == {NoneV, GoodPassword, WrongPassword}

\* text with the therm count printed on its distribution-adjustment line,
\* "<count> therms x <rate> per therm".  The pattern reaches the rate over
\* ".*therms x": the count is text it reads past, no group captures it.
ShowingTherms(text, count) ==
    [i \in 1..Len(text) |->
        IF text[i].t = "section" /\ text[i].label = "Distribution Adjustment"
        THEN [t |-> "section", label |-> text[i].label, caps |-> text[i].caps,
              shown |-> count]
        ELSE text[i]]

Documents ==
    {Document(FALSE, NoneV, pages) : pages \in BlankPages \cup UNION {Layouts(t) : t \in BillTexts}}
    \cup {Document(TRUE, GoodPassword, pages) :
              pages \in {<<WaterBillText>>, <<OldBillText, <<>>>>, <<<<>>, <<>>>>}}
    \cup {Document(FALSE, NoneV, << <<Section("NOT SET ON SUBCLASS", EmptyDict)>> >>)}
    \cup {Document(FALSE, NoneV, <<ShowingTherms(OldBillText, StrV(count)), <<>>>>) :
              count \in {<<"4", "5">>, <<"4", "4">>}}

----------------------------------------------------------------------------
(* The state machine *)

VARIABLES
    bill,      \* the record of the run, NoBill before it is made or extracted
    prev,      \* the outcome of the last validate() of the record, NoneV before
    changed,   \* the fields assigned since then
    nassign,   \* the number of assignments made to the record
    other,     \* another record of the same class, alive beside the first
    last       \* the last operation, with what it was given and how it ended

vars == <<bill, prev, changed, nassign, other, last>>

NoBill == [t |-> "nobill"]

Init ==
    /\ bill = NoBill
    /\ prev = NoneV
    /\ changed = {}
    /\ nassign = 0
    /\ other = NoBill
    /\ last = [op |-> "none"]

\* The record an operation made, or none when it raised, with the operation
\* and how it ended.  Beside a record stands a second instance of its class,
\* built from the values of the class's test bill.
Made(b, op) ==
    /\ bill' = IF IsRaise(b) THEN NoBill ELSE b
    /\ other' = IF IsRaise(b) THEN NoBill
                ELSE NewBill(b.kind, IF b.kind = "GasBill" THEN OldValues ELSE WaterValues)
    /\ last' = [op EXCEPT !.out = IF IsRaise(b) THEN b ELSE Ok]
    /\ UNCHANGED <<prev, changed, nassign>>

\* cls(**values)
Construct(kind, values) ==
    /\ last.op = "none"
    /\ Made(NewBill(kind, values),
            [op |-> "construct", kind |-> kind, values |-> values, out |-> Ok])

\* cls.extract_fields(file, password)
Extract(kind, doc, password) ==
    /\ last.op = "none"
    /\ Made(ExtractFields(kind, doc, password),
            [op |-> "extract", kind |-> kind, doc |-> doc, password |-> password,
             out |-> Ok])

\* cls.pick_patterns(text, reader) with the text and the PdfReader of a
\* document.
DoPickPatterns(kind, doc) ==
    /\ last.op = "none"
    /\ last' = [op |-> "pick_patterns", kind |-> kind, doc |-> doc,
                out |-> PickPatterns(kind, JoinPages(doc.pages), Reader(doc.pages))]
    /\ UNCHANGED <<bill, prev, changed, nassign, other>>

\* getattr(bill, name): a field of the record, or the AttributeError of a
\* name the class does not define.
GetAttr(b, name) ==
    IF name \in DOMAIN b.f THEN b.f[name] ELSE Raise("AttributeError")

\* bill.<name> read of a record just made
DoGetAttr(name) ==
    /\ bill # NoBill
    /\ last.op \in {"construct", "extract"}
    /\ last' = [op |-> "getattr", name |-> name, out |-> GetAttr(bill, name)]
    /\ UNCHANGED <<bill, prev, changed, nassign, other>>

\* A store that derives the supply total of a gas record again after every
\* assignment.
StoredRederived(name, value, r) ==
    /\ bill' = IF IsRaise(r) THEN bill
               ELSE IF bill.kind = "GasBill"
               THEN GasPostInitAlways([bill EXCEPT !.f[name] = r])
               ELSE [bill EXCEPT !.f[name] = r]
    /\ other' = other
    /\ changed' = IF IsRaise(r) THEN changed ELSE changed \cup {name}
    /\ last' = [op |-> "assign", name |-> name, value |-> value, before |-> bill,
                out |-> IF IsRaise(r) THEN r ELSE Ok]

\* A store on the class: the converted value lands in every instance.
StoredOnClass(name, value, r) ==
    /\ bill' = IF IsRaise(r) THEN bill ELSE [bill EXCEPT !.f[name] = r]
    /\ other' = IF IsRaise(r) THEN other ELSE [other EXCEPT !.f[name] = r]
    /\ changed' = IF IsRaise(r) THEN changed ELSE changed \cup {name}
    /\ last' = [op |-> "assign", name |-> name, value |-> value, before |-> bill,
                out |-> IF IsRaise(r) THEN r ELSE Ok]

\* The field holding r, unless the converter raised r: setattr(obj, ...)
\* writes to the instance assigned to and to no other.
Stored(name, value, r) ==
    /\ bill' = IF IsRaise(r) THEN bill ELSE [bill EXCEPT !.f[name] = r]
    /\ other' = other
    /\ changed' = IF IsRaise(r) THEN changed ELSE changed \cup {name}
    /\ last' = [op |-> "assign", name |-> name, value |-> value, before |-> bill,
                out |-> IF IsRaise(r) THEN r ELSE Ok]

\* bill.<name> = value: through the descriptor for a converted field.
Assign(name, value) ==
    /\ bill # NoBill
    /\ nassign < MaxAssign
    /\ name \in FieldNames(bill.kind)
    /\ Stored(name, value, DescriptorSet(bill.kind, name, value))
    /\ nassign' = nassign + 1
    /\ UNCHANGED prev

\* A validate() that raises an error once: the error it raised last time is
\* not raised again.
OutcomeRaisedOnce(out) ==
    /\ last' = [op |-> "validate", out |-> IF IsRaise(out) /\ out = prev THEN Ok ELSE out,
                before |-> prev, changed |-> changed]
    /\ prev' = IF IsRaise(out) /\ out = prev THEN Ok ELSE out

\* The outcome of validate() recorded.
Outcome(out) ==
    /\ last' = [op |-> "validate", out |-> out, before |-> prev, changed |-> changed]
    /\ prev' = out

\* bill.validate()
DoValidate ==
    /\ bill # NoBill
    /\ Outcome(Validate(bill))
    /\ changed' = {}
    /\ UNCHANGED <<bill, nassign, other>>

\* bill.to_row(), beside type(bill).to_header()
DoToRow ==
    /\ bill # NoBill
    /\ last' = [op |-> "to_row", row |-> ToRow(bill), header |-> ToHeader(bill.kind)]
    /\ UNCHANGED <<bill, prev, changed, nassign, other>>

\* The files a batch is run on, by path: the bills of the tests, a scan
\* with two characters of text, an encrypted bill.
BillFiles ==
    [path \in {"water.pdf", "gas-old.pdf", "gas-current.pdf", "scan.pdf", "locked.pdf"} |->
        CASE path = "water.pdf" -> Document(FALSE, NoneV, <<WaterBillText>>)
          [] path = "gas-old.pdf" -> Document(FALSE, NoneV, <<OldBillText, <<>>>>)
          [] path = "gas-current.pdf" -> Document(FALSE, NoneV, <<CurrentBillText>>)
          [] path = "scan.pdf" -> Document(FALSE, NoneV, << <<CharTok("a"), CharTok("b")>> >>)
          [] OTHER -> Document(TRUE, GoodPassword, <<WaterBillText>>)]

\* The longest batch run.
MaxFiles == 2

\* if check: bill.validate(): the record, or what validate raised.
Checked(b, check) ==
    IF IsRaise(b) THEN b
    ELSE IF check /\ IsRaise(Validate(b)) THEN Validate(b)
    ELSE b

\* str(value): a date prints as its ISO text, a str as itself, anything
\* else as the text Python prints for it.
PyStr(value) ==
    IF value.t = "date" THEN IsoFormat(value)
    ELSE IF value.t = "str" THEN value
    ELSE [t |-> "str", of |-> value]

RECURSIVE SortByDate(_)
\* bills.sort(key=lambda b: b.date): stable, a record goes behind the records
\* before it whose date is not later.
SortByDate(bills) ==
    IF Len(bills) <= 1 THEN bills
    ELSE LET b == bills[Len(bills)]
             front == SortByDate(SubSeq(bills, 1, Len(bills) - 1))
             n == Cardinality({i \in 1..Len(front) :
                      ToOrdinal(GetAttr(front[i], "date")) <= ToOrdinal(GetAttr(b, "date"))})
         IN SubSeq(front, 1, n) \o <<b>> \o SubSeq(front, n + 1, Len(front))

\* The dashes, the header of the first record and one row per record.
Printed(sorted, output) ==
    [out |-> Ok,
     output |-> output
         \o << [sep |-> "", cells |-> [i \in 1..80 |-> "-"]],
               [sep |-> ", ", cells |-> ToHeader(sorted[1].kind)] >>
         \o [i \in 1..Len(sorted) |->
                [sep |-> ",", cells |-> [j \in 1..Len(ToRow(sorted[i])) |->
                                             PyStr(ToRow(sorted[i])[j])]]]]

RECURSIVE Processed(_, _, _, _, _, _, _)
\* One turn of the loop over bill_files with r what the try block gave for
\* file i: a RuntimeError becomes a ClickException naming the file and the
\* error is logged, any other exception leaves the command as it is.
Handled(kind, files, password, check, i, bills, output, r) ==
    IF IsRaise(r)
    THEN [out |-> IF r.e = "RuntimeError"
                  THEN [t |-> "raise", e |-> "ClickException",
                        msg |-> "Failed to process as a bill",
                        scope |-> IF kind = "GasBill" THEN "gas" ELSE "water",
                        path |-> files[i], logged |-> r]
                  ELSE r,
          output |-> output]
    ELSE Processed(kind, files, password, check, i + 1, Append(bills, r),
                   IF check THEN output
                   ELSE Append(output, [sep |-> "", cells |-> <<"Skipping data checks">>]))

\* The loop over bill_files from file i on; after it the sort, which reads
\* b.date of every record, and the printing.
Processed(kind, files, password, check, i, bills, output) ==
    IF i > Len(files)
    THEN IF \E j \in 1..Len(bills) : IsRaise(GetAttr(bills[j], "date"))
         THEN [out |-> Raise("AttributeError"), output |-> output]
         ELSE Printed(SortByDate(bills), output)
    ELSE Handled(kind, files, password, check, i, bills, output,
                 Checked(ExtractFields(kind, BillFiles[files[i]], password), check))

\* The command of a bill kind run on files.
Command(kind, files, password, check) ==
    /\ last.op = "none"
    /\ last' = [op |-> "command", kind |-> kind, files |-> files, password |-> password,
                check |-> check,
                res |-> Processed(kind, files, password, check, 1, <<>>, <<>>)]
    /\ UNCHANGED <<bill, prev, changed, nassign, other>>

\* The batches a command is run on: one to MaxFiles of the files, in any
\* order.  A command starts from the initial state only (its guard), so
\* there are none to enumerate elsewhere.
Batches ==
    IF last.op = "none"
    THEN UNION {[1..n -> DOMAIN BillFiles] : n \in 1..MaxFiles}
    ELSE {}

Next ==
    \/ \E kind \in Kinds : \E files \in Batches :
           \E password \in Passwords : \E check \in BOOLEAN :
               Command(kind, files, password, check)
    \/ \E kind \in Kinds : \E values \in InputsOf(kind) : Construct(kind, values)
    \/ \E kind \in Kinds \cup {"Bill"} : \E doc \in Documents : \E password \in Passwords :
           Extract(kind, doc, password)
    \/ \E kind \in Kinds : \E doc \in Documents : DoPickPatterns(kind, doc)
    \/ \E a \in GasAssignments \cup WaterAssignments : Assign(a[1], a[2])
    \/ \E name \in {"date", "current_date", "read_date"} : DoGetAttr(name)
    \/ DoValidate
    \/ DoToRow

Spec == Init /\ [][Next]_vars

----------------------------------------------------------------------------
(* What the properties below are stated with: the calendar, rounding and
   the sums of the checks written out from their definitions, and the
   relation of a header to the fields of a record. *)

RECURSIVE DayOfYear(_, _, _)
\* The number of the day d of month m in year y, counted month by month.
DayOfYear(y, m, d) == IF m = 1 THEN d ELSE DaysInMonth(y, m - 1) + DayOfYear(y, m - 1, d)

\* The days from date b to date a, counted year by year.
CalendarDays(a, b) ==
    IF a.y >= b.y
    THEN (365 * (a.y - b.y)) + Cardinality({y \in b.y..(a.y - 1) : IsLeap(y)})
         + DayOfYear(a.y, a.m, a.d) - DayOfYear(b.y, b.m, b.d)
    ELSE -((365 * (b.y - a.y)) + Cardinality({y \in a.y..(b.y - 1) : IsLeap(y)})
           + DayOfYear(b.y, b.m, b.d) - DayOfYear(a.y, a.m, a.d))

\* The multiple of step nearest to u, the even multiple when u is halfway.
NearestEven(u, step) ==
    LET lo == (u \div step) * step
        hi == lo + step
    IN IF u - lo < hi - u THEN lo
       ELSE IF u - lo > hi - u THEN hi
       ELSE IF ((lo \div step) % 2) = 0 THEN lo ELSE hi

Whole == Unit
Cent == Unit \div 100

DatesError == RaiseMsg("ValueError", DatesMsg)
ReadingsError == RaiseMsg("ValueError", ReadingsMsg)
DeliveryError == RaiseMsg("ValueError", DeliveryMsg)
TotalsError == RaiseMsg("ValueError", TotalsMsg)
WaterError == RaiseMsg("ValueError", WaterMsg)

Validated(kind) == last.op = "validate" /\ bill.kind = kind

DatesAgree(b) ==
    CalendarDays(b.f.current_date, b.f.previous_date) = b.f.days_since_last_reading.v

ReadingsAgree(b) ==
    NearestEven((b.f.current_meter_reading.v - b.f.previous_meter_reading.v)
                    * Num(b.f.thermal_factor), Whole)
        = Num(b.f.total_therms)

DeliveryAgrees(b) ==
    /\ IsNum(b.f.delivery_min_rate_usd)
    /\ IsNum(b.f.delivery_first_tier_rate_usd)
    /\ NearestEven((b.f.days_since_last_reading.v * Num(b.f.delivery_min_rate_usd))
                   + (b.f.total_therms.v
                        * (Num(b.f.delivery_first_tier_rate_usd)
                           + Num(b.f.delivery_distribution_adjustment_rate_usd))), Cent)
           = Num(b.f.delivery_total_usd)

GasSum(b) ==
    NearestEven(Num(b.f.delivery_total_usd) + Num(b.f.supply_total_usd)
                + Num(b.f.paperless_bill_credit_usd), Cent)

WaterSum(b) ==
    NearestEven(Num(b.f.water_charge) + Num(b.f.sewer_charge) + Num(b.f.past_due)
                + Num(b.f.interest) + Num(b.f.adjustments), Cent)

\* The field a column of the header names.
HeaderField(kind, column) ==
    IF kind = "GasBill"
    THEN (IF column = "total_therms_used" THEN "total_therms" ELSE column)
    ELSE CASE column = "reading" -> "current_meter_reading"
           [] column = "water_charge_usd" -> "water_charge"
           [] column = "sewer_charge_usd" -> "sewer_charge"
           [] column = "past_due_usd" -> "past_due"
           [] column = "adjustments_usd" -> "adjustments"
           [] column = "interest_usd" -> "interest"
           [] column = "total_usd" -> "total"
           [] OTHER -> column

\* An element of a row is the value of a field: the value itself, or for a
\* date its ISO rendering.
Rendered(element, value) ==
    \/ element = value
    \/ value.t = "date" /\ element = IsoFormat(value)

Readable(doc, password) == ~doc.encrypted \/ password = doc.password
FullText(doc) == JoinPages(doc.pages)
SelectedPatterns(kind, doc) == PickPatterns(kind, FullText(doc), Reader(doc.pages)).ps
Captures(kind, doc) == MergeAll(SelectedPatterns(kind, doc), FullText(doc))
AllMatch(kind, doc) ==
    /\ FirstMismatch(SelectedPatterns(kind, doc), FullText(doc)) = 0
    /\ DOMAIN Captures(kind, doc) # {}

----------------------------------------------------------------------------
(* Properties *)

\* C1: for every bill kind and every constructed record, the row is as long
\* as the header and the value at each position of to_row() is the value of
\* the field the header names at that position.
C1_RowFollowsHeader ==
    last.op = "to_row" =>
        /\ Len(last.row) = Len(last.header)
        /\ \A i \in 1..Len(last.header) :
               Rendered(last.row[i], bill.f[HeaderField(bill.kind, last.header[i])])

\* C2: extract_fields on a readable document whose text every pattern of the
\* selected set matches, with at least one named capture, returns a record of
\* the calling kind whose fields are the converted captures, without
\* validating it.
C2_ExtractReturnsRecord ==
    (/\ last.op = "extract"
     /\ Readable(last.doc, last.password)
     /\ AllMatch(last.kind, last.doc)) =>
        /\ last.out = Ok
        /\ bill # NoBill
        /\ bill.kind = last.kind
        /\ \A name \in DOMAIN Captures(last.kind, last.doc) :
               name = "supply_total_usd"
               \/ bill.f[name] = (IF FieldNamed(last.kind, name).conv = "plain"
                                  THEN Captures(last.kind, last.doc)[name]
                                  ELSE DescriptorSet(last.kind, name,
                                                     Captures(last.kind, last.doc)[name]))

\* C3: GasBill.validate raises the dates error exactly when the calendar days
\* from previous_date to current_date differ from days_since_last_reading; a
\* record of 2024-06-20 to 2024-07-20 with 32 days fails with it.
C3_DatesCheck ==
    Validated("GasBill") =>
        /\ (last.out = DatesError) <=> ~DatesAgree(bill)
        /\ (/\ bill.f.current_date = DateV(2024, 7, 20)
            /\ bill.f.previous_date = DateV(2024, 6, 20)
            /\ bill.f.days_since_last_reading.v = 32) => last.out = DatesError

C3_Witness ==
    /\ Validated("GasBill")
    /\ bill.f.current_date = DateV(2024, 7, 20)
    /\ bill.f.previous_date = DateV(2024, 6, 20)
    /\ bill.f.days_since_last_reading.v = 32
    /\ last.out = DatesError

\* C4: once the dates check has passed, GasBill.validate raises the readings
\* error exactly when the difference of the readings times the thermal
\* factor, rounded to the nearest integer with ties to even, differs from
\* total_therms; readings 1805 and 1761 with factor 1.0303 and 45 therms pass.
C4_ReadingsCheck ==
    (Validated("GasBill") /\ DatesAgree(bill)) =>
        /\ (last.out = ReadingsError) <=> ~ReadingsAgree(bill)
        /\ (/\ bill.f.current_meter_reading.v = 1805
            /\ bill.f.previous_meter_reading.v = 1761
            /\ bill.f.thermal_factor = FloatV(Dec(10303, 4))
            /\ bill.f.total_therms.v = 45) => last.out # ReadingsError

C4_Witness ==
    /\ Validated("GasBill")
    /\ DatesAgree(bill)
    /\ bill.f.current_meter_reading.v = 1804
    /\ bill.f.previous_meter_reading.v = 1800
    /\ bill.f.thermal_factor = FloatV(Dec(1125, 3))
    /\ bill.f.total_therms.v = 4
    /\ last.out = Ok

\* C5: once the dates and readings checks have passed, GasBill.validate
\* passes the delivery check exactly when days x minimum rate + therms x
\* (first tier rate + distribution adjustment rate), rounded to 2 decimals,
\* equals delivery_total_usd, and raises the delivery error otherwise.
C5_DeliveryCheck ==
    (Validated("GasBill") /\ DatesAgree(bill) /\ ReadingsAgree(bill)) =>
        IF DeliveryAgrees(bill)
        THEN last.out \in {Ok, TotalsError}
        ELSE last.out = DeliveryError

\* C6: once the first three checks have passed, GasBill.validate returns
\* normally exactly when delivery total + supply total + paperless credit,
\* rounded to 2 decimals, equals total_usd, and raises the totals error
\* otherwise; 75.90 + 36.55 - 0.38 = 112.07 passes.
C6_TotalsCheck ==
    (Validated("GasBill") /\ DatesAgree(bill) /\ ReadingsAgree(bill)
         /\ DeliveryAgrees(bill)) =>
        /\ IF GasSum(bill) = Num(bill.f.total_usd)
           THEN last.out = Ok
           ELSE last.out = TotalsError
        /\ (/\ bill.f.delivery_total_usd = FloatV(Dec(7590, 2))
            /\ bill.f.supply_total_usd = FloatV(Dec(3655, 2))
            /\ bill.f.paperless_bill_credit_usd = FloatV(Dec(-38, 2))
            /\ bill.f.total_usd = FloatV(Dec(11207, 2))) => last.out = Ok

C6_Witness ==
    /\ Validated("GasBill")
    /\ bill.f.delivery_total_usd = FloatV(Dec(7590, 2))
    /\ bill.f.supply_total_usd = FloatV(Dec(3655, 2))
    /\ bill.f.paperless_bill_credit_usd = FloatV(Dec(-38, 2))
    /\ bill.f.total_usd = FloatV(Dec(11207, 2))
    /\ last.out = Ok

\* C7: WaterBill.validate returns normally exactly when the five charges,
\* summed and rounded to 2 decimals, equal total, and raises ValueError
\* otherwise; the raw fields of the test bill construct a record read on
\* 2023-11-25 that validates.
C7_WaterCheck ==
    /\ Validated("WaterBill") =>
           IF WaterSum(bill) = Num(bill.f.total)
           THEN last.out = Ok
           ELSE last.out = WaterError
    /\ (last.op = "construct" /\ last.kind = "WaterBill" /\ last.values = WaterValues) =>
           /\ last.out = Ok
           /\ bill.f.read_date = DateV(2023, 11, 25)
           /\ bill.f.water_charge = FloatV(Dec(270, 2))
           /\ bill.f.sewer_charge = FloatV(Dec(733, 2))
           /\ bill.f.total = FloatV(Dec(1003, 2))
    /\ (/\ Validated("WaterBill")
        /\ bill.f.water_charge = FloatV(Dec(270, 2))
        /\ bill.f.sewer_charge = FloatV(Dec(733, 2))
        /\ Num(bill.f.past_due) = 0 /\ Num(bill.f.interest) = 0
        /\ Num(bill.f.adjustments) = 0
        /\ bill.f.total = FloatV(Dec(1003, 2))) => last.out = Ok

C7_Witness ==
    /\ Validated("WaterBill")
    /\ bill.f.read_date = DateV(2023, 11, 25)
    /\ bill.f.water_charge = FloatV(Dec(270, 2))
    /\ bill.f.sewer_charge = FloatV(Dec(733, 2))
    /\ bill.f.total = FloatV(Dec(1003, 2))
    /\ nassign = 0
    /\ last.out = Ok

TotalField(kind) == IF kind = "GasBill" THEN "total_usd" ELSE "total"
RecomputedSum(b) == IF b.kind = "GasBill" THEN GasSum(b) ELSE WaterSum(b)

\* C8: on a record that validate passed, assigning the total field a value
\* other than the recomputed sum (-100, say) makes the next validate raise
\* the ValueError of the totals check.
C8_WrongTotalRejected ==
    (/\ last.op = "validate"
     /\ last.before = Ok
     /\ last.changed = {TotalField(bill.kind)}
     /\ Num(bill.f[TotalField(bill.kind)]) # RecomputedSum(bill)) =>
        last.out = (IF bill.kind = "GasBill" THEN TotalsError ELSE WaterError)

C8_Witness ==
    /\ last.op = "validate"
    /\ last.before = Ok
    /\ last.changed = {TotalField(bill.kind)}
    /\ bill.kind = "GasBill"
    /\ Num(bill.f.total_usd) = -100 * Unit
    /\ last.out = TotalsError

\* C9: a constructed GasBill holds round(total_therms x supply_rate_usd, 2)
\* as its supply total when none or zero was supplied, a value fixed by the
\* therms and the rate alone, and holds the supplied value, converted, when a
\* non-zero one was supplied.
C9_SupplyTotal ==
    (last.op = "construct" /\ last.kind = "GasBill" /\ last.out = Ok) =>
        IF \/ "supply_total_usd" \notin DOMAIN last.values
           \/ Num(SpacedFloat(last.values.supply_total_usd)) = 0
        THEN Num(bill.f.supply_total_usd)
                 = NearestEven(bill.f.total_therms.v * Num(bill.f.supply_rate_usd), Cent)
        ELSE bill.f.supply_total_usd = SpacedFloat(last.values.supply_total_usd)

C9_Witness ==
    /\ last.op = "construct" /\ last.kind = "GasBill" /\ last.out = Ok
    /\ "supply_total_usd" \notin DOMAIN last.values
    /\ bill.f.total_therms.v = 45
    /\ bill.f.supply_rate_usd = FloatV(Dec(81220, 5))
    /\ bill.f.supply_total_usd = FloatV(Dec(3655, 2))

\* C10: when a pattern of the selected set finds no match, extract_fields
\* fails with the RuntimeError that carries the first such pattern and the
\* full text searched, and no record is constructed.
C10_MismatchNamesPattern ==
    (/\ last.op = "extract"
     /\ Readable(last.doc, last.password)
     /\ FirstMismatch(SelectedPatterns(last.kind, last.doc), FullText(last.doc)) # 0) =>
        /\ bill = NoBill
        /\ last.out = PatternError(
               SelectedPatterns(last.kind, last.doc)[
                   FirstMismatch(SelectedPatterns(last.kind, last.doc), FullText(last.doc))],
               FullText(last.doc))

\* The fields of a kind declared with a default, the derived supply total
\* apart.
Defaulted(kind) ==
    {FieldsOf(kind)[i].name :
         i \in {j \in 1..Len(FieldsOf(kind)) : ~FieldsOf(kind)[j].required}}
        \ {"supply_total_usd"}

\* A mapping of the tests without one of its entries.
OmitsOne(values, name) ==
    \E base \in {OldValues, TieValues, CurrentValues, WaterValues, WaterTieValues} :
        name \in DOMAIN base /\ values = Without(base, name)

\* A field read back as its declared default: the number, the unset
\* sentinel, or the day of the epoch.
IsFallback(value, default) ==
    IF default.t = "datetime" THEN value = DateV(default.y, default.m, default.d)
    ELSE PyEq(value, default)

\* C11: constructing a GasBill or WaterBill from a mapping that omits a field
\* declared with a default, a number or a date, succeeds, and the omitted
\* field reads back as its fallback value.
C11_OmittedFieldsDefault ==
    \A name \in (IF last.op = "construct" THEN Defaulted(last.kind) ELSE {}) :
        OmitsOne(last.values, name) =>
            /\ last.out = Ok
            /\ IsFallback(bill.f[name], FieldNamed(last.kind, name).default)

\* The date field a kind's row starts with.
PrimaryDate(kind) == IF kind = "GasBill" THEN "current_date" ELSE "read_date"

\* C14: for every bill kind, the first element of to_row() is the ISO-8601
\* text (YYYY-MM-DD) of the record's date field, current_date for a GasBill
\* and read_date for a WaterBill.
C14_RowDateIsIsoText ==
    last.op = "to_row" => last.row[1] = IsoFormat(bill.f[PrimaryDate(bill.kind)])

NoPasswordError ==
    RaiseMsg("RuntimeError", "Cannot read an encrypted document without a password")

\* What extract_fields does with the pages once they are readable.
FromPages(kind, pages) == Read(kind, [t |-> "text", text |-> JoinPages(pages)])

\* C18: an encrypted document read without a password fails with the
\* RuntimeError of read_pdf whatever its pages hold, and no record is made;
\* with a password the reader is decrypted before the text of the pages is
\* taken: the right password gives what the pages give, a wrong one fails
\* on the undecrypted pages and no pattern is searched.
C18_EncryptedNeedsPassword ==
    last.op = "extract" /\ last.doc.encrypted =>
        IF last.password = NoneV
        THEN last.out = NoPasswordError /\ bill = NoBill
        ELSE IF last.password = last.doc.password
        THEN IF IsRaise(FromPages(last.kind, last.doc.pages))
             THEN last.out = FromPages(last.kind, last.doc.pages) /\ bill = NoBill
             ELSE last.out = Ok /\ bill = FromPages(last.kind, last.doc.pages)
        ELSE last.out.e = "FileNotDecryptedError" /\ bill = NoBill

\* An encrypted bill of the tests read without a password.
C18_Witness ==
    /\ last.op = "extract"
    /\ last.doc.encrypted
    /\ last.doc.pages = <<WaterBillText>>
    /\ last.password = NoneV
    /\ last.out = NoPasswordError
    /\ bill = NoBill

\* C17: GasBill.pick_patterns returns the old pattern set exactly when the
\* document has 2 pages and the current pattern set for every other number
\* of pages, whatever the text of the document.
C17_OldPatternsIffTwoPages ==
    last.op = "pick_patterns" /\ last.kind = "GasBill" =>
        /\ last.out.ps \in {GasOldPatterns, GasCurrentPatterns}
        /\ last.out.ps = GasOldPatterns <=> Len(last.doc.pages) = 2
        /\ last.out.ps = GasCurrentPatterns <=> Len(last.doc.pages) # 2

\* The text of a current bill on three pages: the current patterns.
C17_Witness ==
    /\ last.op = "pick_patterns"
    /\ last.kind = "GasBill"
    /\ last.doc.pages = <<CurrentBillText, <<>>, <<>>>>
    /\ last.out = PatternSet(GasCurrentPatterns)

\* C15: every bill has an attribute date that is its primary date field:
\* bill.date is bill.current_date for a GasBill and bill.read_date for a
\* WaterBill.
C15_DateIsPrimaryDate ==
    last.op = "getattr" /\ last.name = "date" =>
        last.out = bill.f[PrimaryDate(bill.kind)]

\* The error extract_fields raises when no pattern captured anything.
NothingCaptured(text) ==
    [t |-> "raise", e |-> "RuntimeError", msg |-> "Cannot parse bill", text |-> text]

\* C20: when every pattern matches the text of a readable document and the
\* merged mapping of the named captures is empty, extract_fields fails with
\* the generic cannot-parse-bill RuntimeError and makes no record; when a
\* pattern does not match, that error is not the one reported.
C20_NoCapturesIsGenericError ==
    last.op = "extract" /\ Readable(last.doc, last.password) =>
        IF FirstMismatch(SelectedPatterns(last.kind, last.doc), FullText(last.doc)) = 0
        THEN DOMAIN Captures(last.kind, last.doc) = {} =>
                 last.out = NothingCaptured(FullText(last.doc)) /\ bill = NoBill
        ELSE last.out # NothingCaptured(FullText(last.doc))

\* What the try block of the command gives for one file.
FileOutcome(kind, path, password, check) ==
    Checked(ExtractFields(kind, BillFiles[path], password), check)

\* The first file of the batch whose extraction or validation fails (0: none).
FirstFailed(run) ==
    FirstTrue([i \in 1..Len(run.files) |->
                  IsRaise(FileOutcome(run.kind, run.files[i], run.password, run.check))])

\* C12: in a batch, the failure of the extraction or of the validation of a
\* file ends the command with a click error whose message names the path of
\* that file and the bill kind, the error itself being logged.
C12_FailureIsClickError ==
    last.op = "command" /\ FirstFailed(last) # 0 =>
        /\ last.res.out.e = "ClickException"
        /\ last.res.out.path = last.files[FirstFailed(last)]
        /\ last.res.out.scope = (IF last.kind = "GasBill" THEN "gas" ELSE "water")
        /\ last.res.out.logged =
               FileOutcome(last.kind, last.files[FirstFailed(last)], last.password, last.check)

\* The record the text of a file holds for a kind: its captures converted.
RecordIn(kind, path) == NewBill(kind, Captures(kind, BillFiles[path]))

\* A file the command has no reason to fail on: readable with the password,
\* every pattern of the kind matching, the captures a record that passes
\* the checks asked for.
GoodFile(kind, path, password, check) ==
    /\ Readable(BillFiles[path], password)
    /\ AllMatch(kind, BillFiles[path])
    /\ ~IsRaise(Checked(RecordIn(kind, path), check))

GoodBatch(run) ==
    \A i \in 1..Len(run.files) : GoodFile(run.kind, run.files[i], run.password, run.check)

\* The printed line of the row of a record.
RowLine(b) ==
    [sep |-> ",", cells |-> [j \in 1..Len(ToRow(b)) |-> PyStr(ToRow(b)[j])]]

\* The lines from position k on are the rows of the files taken in order p.
RowsAre(run, k, p) ==
    \A i \in 1..Len(run.files) :
        run.res.output[k + i] = RowLine(RecordIn(run.kind, run.files[p[i]]))

\* C13: the command prints a header or a row only when every file was
\* extracted, and validated when checks are on, without failure: a batch
\* with a failing file prints no header and no row, and a batch of good
\* files prints, after the line of dashes, exactly the header and then one
\* row per file.
C13_OutputOnlyWhenAllSucceed ==
    last.op = "command" =>
        IF GoodBatch(last)
        THEN /\ last.res.out = Ok
             /\ Len(last.res.output)
                    = (IF last.check THEN 0 ELSE Len(last.files)) + 2 + Len(last.files)
             /\ last.res.output[Len(last.res.output) - Len(last.files)]
                    = [sep |-> ", ", cells |-> ToHeader(last.kind)]
             /\ \E p \in Permutations(1..Len(last.files)) :
                    RowsAre(last, Len(last.res.output) - Len(last.files), p)
        ELSE /\ IsRaise(last.res.out)
             /\ \A i \in 1..Len(last.res.output) : last.res.output[i].sep = ""

\* C16: a batch that succeeds prints its rows in non-decreasing order of
\* the date of the bills, in whatever order the files were given.
C16_RowsInDateOrder ==
    last.op = "command" /\ GoodBatch(last) =>
        /\ last.res.out = Ok
        /\ \E p \in Permutations(1..Len(last.files)) :
               /\ RowsAre(last, Len(last.res.output) - Len(last.files), p)
               /\ \A i \in 1..(Len(last.files) - 1) :
                      ToOrdinal(RecordIn(last.kind, last.files[p[i]]).f[PrimaryDate(last.kind)])
                      <= ToOrdinal(RecordIn(last.kind, last.files[p[i + 1]]).f[PrimaryDate(last.kind)])

\* The named captures of every pattern of a set, each searched in the same
\* text on its own; a name captured by several patterns has the value of the
\* last of them.
UnionOfCaptures(patterns, text) ==
    [name \in UNION {DOMAIN Search(patterns[i], text).groups : i \in 1..Len(patterns)} |->
        Search(patterns[SetMax({i \in 1..Len(patterns) :
                                    name \in DOMAIN Search(patterns[i], text).groups})],
               text).groups[name]]

\* C21: the mapping extract_fields builds the record from is the union of
\* the named captures of all patterns of the selected set, each applied to
\* the same full text, the later pattern winning where two capture the same
\* name: the record returned is the one the constructor makes of that mapping.
C21_RecordFromUnionOfCaptures ==
    (/\ last.op = "extract"
     /\ Readable(last.doc, last.password)
     /\ AllMatch(last.kind, last.doc)
     /\ ~IsRaise(NewBill(last.kind,
                         UnionOfCaptures(SelectedPatterns(last.kind, last.doc),
                                         FullText(last.doc))))) =>
        bill = NewBill(last.kind,
                       UnionOfCaptures(SelectedPatterns(last.kind, last.doc),
                                       FullText(last.doc)))

\* The error of the first of the four checks of GasBill.validate, in the
\* order dates, readings, delivery, totals, whose two sides differ; Ok when
\* all four agree.
EarliestFailing(b) ==
    IF ~DatesAgree(b) THEN DatesError
    ELSE IF ~ReadingsAgree(b) THEN ReadingsError
    ELSE IF ~DeliveryAgrees(b) THEN DeliveryError
    ELSE IF GasSum(b) # Num(b.f.total_usd) THEN TotalsError
    ELSE Ok

\* C22: GasBill.validate raises the error of the earliest failing check in
\* the order dates, readings, delivery, totals, whatever the later checks
\* would find, and the four errors have four different messages.
C22_EarliestFailingCheck ==
    /\ Cardinality({DatesMsg, ReadingsMsg, DeliveryMsg, TotalsMsg}) = 4
    /\ Validated("GasBill") => last.out = EarliestFailing(bill)

\* C23: validate of a GasBill, also of one built without a first-tier
\* delivery rate, either returns normally or raises a ValueError, never any
\* other kind of error.
C23_ValidateRaisesOnlyValueError ==
    Validated("GasBill") /\ IsRaise(last.out) => last.out.e = "ValueError"

\* The fields the supply total is derived from at construction.
SupplyFactors == {"total_therms", "supply_rate_usd"}

\* C24: the supply total is derived at construction only: assigning
\* total_therms or supply_rate_usd on an existing GasBill leaves
\* supply_total_usd as it was, and a later validate takes the stored supply
\* total, stale or not, for its totals check.
C24_SupplyTotalNotRederived ==
    /\ [](Validated("GasBill") /\ last.changed # {} /\ last.changed \subseteq SupplyFactors
              /\ DatesAgree(bill) /\ ReadingsAgree(bill) /\ DeliveryAgrees(bill) =>
          (last.out = IF GasSum(bill) = Num(bill.f.total_usd) THEN Ok ELSE TotalsError))
    /\ [][bill # NoBill /\ last'.op = "assign" /\ last'.name \in SupplyFactors =>
              bill'.f.supply_total_usd = bill.f.supply_total_usd]_vars

\* A validate that passes on a supply total that is no longer the product
\* of the therms and the assigned rate.
C24_Witness ==
    /\ Validated("GasBill")
    /\ last.changed = {"supply_rate_usd"}
    /\ Num(bill.f.supply_total_usd)
           # NearestEven(bill.f.total_therms.v * Num(bill.f.supply_rate_usd), Cent)
    /\ last.out = Ok

\* What construction stores in the field name when it is given value alone
\* for it.
StoredAtConstruction(kind, name, value) ==
    InitValue(FieldNamed(kind, name), [n \in {name} |-> value])

\* C25: a field of a record can be assigned after construction; the
\* assignment stores what construction would store for the value (the
\* field's converter applied to it), or raises the converter's exception and
\* stores nothing; no other field of the record changes, and the other
\* record of the same class is left as it was.
C25_AssignmentChangesOneField ==
    [][bill # NoBill /\ last'.op = "assign" =>
          /\ last'.name \in FieldNames(bill.kind)
          /\ other' = other
          /\ bill'.kind = bill.kind
          /\ \A n \in FieldNames(bill.kind) \ {last'.name} : bill'.f[n] = bill.f[n]
          /\ IF IsRaise(StoredAtConstruction(bill.kind, last'.name, last'.value))
             THEN /\ bill' = bill
                  /\ last'.out = StoredAtConstruction(bill.kind, last'.name, last'.value)
             ELSE /\ last'.out = Ok
                  /\ bill'.f[last'.name]
                         = StoredAtConstruction(bill.kind, last'.name, last'.value)]_vars

\* An assignment of a text that the converter turned into a number different
\* from what the field and the other record's field held.
C25_Witness ==
    /\ last.op = "assign"
    /\ last.out = Ok
    /\ last.value.t = "str"
    /\ IsNum(bill.f[last.name])
    /\ bill.f[last.name] # last.before.f[last.name]
    /\ other # NoBill
    /\ other.f[last.name] # bill.f[last.name]

\* A file whose text holds a record of the kind: readable with the password,
\* every pattern of the kind matching, the captures accepted by the class.
HoldsRecord(kind, path, password) ==
    /\ Readable(BillFiles[path], password)
    /\ AllMatch(kind, BillFiles[path])
    /\ ~IsRaise(RecordIn(kind, path))

\* The files the loop of a run reaches: all of them, or those up to the
\* first that fails.
Reached(run) ==
    1..(IF FirstFailed(run) = 0 THEN Len(run.files) ELSE FirstFailed(run))

\* The files of a run whose record validate() is called on: with checks on,
\* the files reached whose extraction returned a record.
ValidateCalls(run) ==
    {i \in Reached(run) :
        run.check /\ ~IsRaise(ExtractFields(run.kind, BillFiles[run.files[i]], run.password))}

\* The first file of the run whose record does not pass validate() (0: none).
FirstInconsistent(run) ==
    FirstTrue([i \in 1..Len(run.files) |-> IsRaise(Validate(RecordIn(run.kind, run.files[i])))])

\* C26: on files that each hold a record, a run with checks on calls
\* validate once for every file up to the first inconsistent record, and a
\* run with --ignore-checks calls it for none and prints a row for every
\* file, consistent or not.
C26_ValidateOncePerFileWhenChecking ==
    (/\ last.op = "command"
     /\ \A i \in 1..Len(last.files) : HoldsRecord(last.kind, last.files[i], last.password)) =>
        IF last.check
        THEN ValidateCalls(last)
                 = 1..(IF FirstInconsistent(last) = 0 THEN Len(last.files)
                       ELSE FirstInconsistent(last))
        ELSE /\ ValidateCalls(last) = {}
             /\ last.res.out = Ok
             /\ Len(last.res.output) = 2 * Len(last.files) + 2
             /\ \E p \in Permutations(1..Len(last.files)) :
                    RowsAre(last, Len(last.files) + 2, p)

\* The therm counts printed on the distribution-adjustment lines of a text.
ShownTherms(text) ==
    {text[i].shown : i \in {j \in 1..Len(text) :
                                text[j].t = "section" /\ "shown" \in DOMAIN text[j]}}

\* C27: extraction of an old-layout gas bill (2 pages) whose
\* distribution-adjustment line prints a therm count returns a record only
\* if that count is the captured "Total therms used" figure, and a bill
\* printing another count there is rejected with the mismatch of the old
\* pattern.
C27_OldLayoutRepeatsTotalTherms ==
    (/\ last.op = "extract"
     /\ last.kind = "GasBill"
     /\ Readable(last.doc, last.password)
     /\ Len(last.doc.pages) = 2
     /\ AllMatch(last.kind, last.doc)
     /\ ShownTherms(FullText(last.doc)) # {}) =>
        /\ bill # NoBill =>
               ShownTherms(FullText(last.doc)) = {Captures(last.kind, last.doc).total_therms}
        /\ ShownTherms(FullText(last.doc)) # {Captures(last.kind, last.doc).total_therms} =>
               /\ bill = NoBill
               /\ last.out = PatternError(GasOldPatterns[1], FullText(last.doc))

\* A gas document in the layout of the pattern set its page count does not
\* select: a current-layout bill on exactly 2 pages, or an old-layout bill on
\* another number of pages.
InOtherLayout(doc) ==
    FirstMismatch(IF Len(doc.pages) = 2 THEN GasCurrentPatterns ELSE GasOldPatterns,
                  FullText(doc)) = 0

CurrentCaptured == DOMAIN CurrentValues

\* The delivery sum of a record with .4 a day as its minimum charge.
DeliveryAtDefaultRate(b) ==
    NearestEven((b.f.days_since_last_reading.v * Dec(4, 1))
                + (b.f.total_therms.v
                     * (Num(b.f.delivery_first_tier_rate_usd)
                        + Num(b.f.delivery_distribution_adjustment_rate_usd))), Cent)

\* Other minimum charges a bill could print.
OtherCharges == {NoneV, FloatV(0), FloatV(Dec(1160, 2)), FloatV(Dec(1280, 2))}

\* C29: a GasBill made of the captures of the current-layout pattern holds
\* delivery_min_rate_usd = 0.4 whatever the captured texts are; while the
\* rate is the default, validate decides the delivery check by days x 0.4 +
\* therms x (first tier rate + adjustment rate); and whatever
\* delivery_min_charge_usd holds, validate ends the same way.
C29_CurrentLayoutMinimumRate ==
    /\ "delivery_min_rate_usd" \notin CurrentCaptured
    /\ "delivery_min_charge_usd" \in CurrentCaptured
    /\ (/\ last.op \in {"construct", "extract"}
        /\ last.kind = "GasBill"
        /\ bill # NoBill
        /\ last.op = "construct" => DOMAIN last.values = CurrentCaptured
        /\ last.op = "extract" => last.out = Ok /\ SelectedPatterns(last.kind, last.doc) = GasCurrentPatterns) =>
           bill.f.delivery_min_rate_usd = FloatV(Dec(4, 1))
    /\ (/\ Validated("GasBill")
        /\ bill.f.delivery_min_rate_usd = FloatV(Dec(4, 1))
        /\ IsNum(bill.f.delivery_first_tier_rate_usd)
        /\ DatesAgree(bill)
        /\ ReadingsAgree(bill)) =>
           (last.out = DeliveryError <=> DeliveryAtDefaultRate(bill) # Num(bill.f.delivery_total_usd))
    /\ Validated("GasBill") =>
           \A charge \in OtherCharges :
               Validate([bill EXCEPT !.f.delivery_min_charge_usd = charge]) = last.out

\* A record of the current layout, with the printed minimum charge of 12.80
\* for 30 days, fails the delivery check on 30 x 0.4.
C29_Witness ==
    /\ Validated("GasBill")
    /\ bill.f.measured_therms # NoneV
    /\ bill.f.delivery_min_rate_usd = FloatV(Dec(4, 1))
    /\ IsNum(bill.f.delivery_min_charge_usd)
    /\ Num(bill.f.delivery_min_charge_usd) # bill.f.days_since_last_reading.v * Dec(4, 1)
    /\ DatesAgree(bill)
    /\ ReadingsAgree(bill)
    /\ last.out = DeliveryError

\* The fields with a tolerant converter, and the strict parser of each.
Tolerant(kind, name) ==
    FieldNamed(kind, name).conv
        \in {"_spaced_int", "_spaced_optional_int", "_spaced_float", "_spaced_optional_float"}

\* The characters of a string that are not spaces, in order.
NoSpaces(s) == SelectSeq(s, LAMBDA c : c # " ")

\* int() or float(), as the field is an int or a float field, of the string
\* s without its spaces.
StrictOfNoSpaces(kind, name, s) ==
    IF FieldNamed(kind, name).conv \in {"_spaced_int", "_spaced_optional_int"}
    THEN PyInt(StrV(NoSpaces(s)))
    ELSE PyFloat(StrV(NoSpaces(s)))

\* C30: a string given to a field with a tolerant converter, at construction
\* or by assignment, is stored as the number int() or float() gives for the
\* string without its spaces, wherever the spaces are ("1 805" is stored as
\* 1805), which for a string without spaces is what int() or float() gives
\* for the string itself; a string they reject is rejected with their error.
C30_TolerantConvertersIgnoreSpaces ==
    /\ (last.op = "assign" /\ Tolerant(bill.kind, last.name) /\ last.value.t = "str") =>
           IF IsRaise(StrictOfNoSpaces(bill.kind, last.name, last.value.s))
           THEN last.out = StrictOfNoSpaces(bill.kind, last.name, last.value.s)
           ELSE /\ last.out = Ok
                /\ bill.f[last.name] = StrictOfNoSpaces(bill.kind, last.name, last.value.s)
    /\ (last.op = "construct" /\ bill # NoBill) =>
           \A name \in DOMAIN last.values \ {"supply_total_usd"} :
               (Tolerant(last.kind, name) /\ last.values[name].t = "str") =>
                   /\ bill.f[name] = StrictOfNoSpaces(last.kind, name, last.values[name].s)
                   /\ last.values[name] = StrV(<<"1", " ", "8", "0", "5">>) =>
                          bill.f[name] = IntV(1805)
                   /\ last.values[name] = StrV(<<"7", " ", "5", ".", "9", "0">>) =>
                          bill.f[name] = FloatV(Dec(7590, 2))

\* A record constructed with the reading "1 805" holds 1805.
C30_Witness ==
    /\ last.op = "construct"
    /\ last.kind = "GasBill"
    /\ bill # NoBill
    /\ "current_meter_reading" \in DOMAIN last.values
    /\ last.values.current_meter_reading = StrV(<<"1", " ", "8", "0", "5">>)
    /\ bill.f.current_meter_reading = IntV(1805)

====
